---- MODULE Spec2Model ----
(***************************************************************************)
(* Model of src/extract.ts: a request handler that downloads a repository  *)
(* archive, walks every stylesheet in it for colour literals and renders   *)
(* the distinct colours as a grid of 64x64 tiles.                          *)
(*                                                                         *)
(* Strings that the code inspects are sequences of one-character strings   *)
(* (paths, hex digits).  A declaration value is a sequence of tokens       *)
(* separated by white space.  The rendered document is the record of its   *)
(* attributes and the sequence of its rect elements.                       *)
(***************************************************************************)
EXTENDS Integers, Sequences, FiniteSets, TLC

VARIABLES
  rawUrl,     \* event.rawUrl: the query parameters of the request
  pc,         \* the await the handler is suspended at
  net,        \* the URLs handed to fetch, in call order
  resp,       \* what fetch resolved with: status and body
  opened,     \* the buffers handed to unzipper.Open.buffer, in call order
  files,      \* directoryFromBuffer.files
  idx,        \* index (1-based) of the entry whose buffer() is awaited
  readLog,    \* the paths whose buffer() was called, in call order
  hexColors,  \* main's Set<string>, in insertion order
  response,   \* what the handler returned
  fault,      \* which awaited promise rejected, if any
  arg,        \* input of the pure function under check
  result,     \* its output
  called      \* whether it has been applied

vars == <<rawUrl, pc, net, resp, opened, files, idx, readLog, hexColors,
          response, fault, arg, result, called>>

handlerVars == <<rawUrl, pc, net, resp, opened, files, idx, readLog,
                 hexColors, response, fault>>

pureVars == <<arg, result, called>>

(***************************************************************************)
(* Bounds                                                                  *)
(***************************************************************************)
MaxFiles == 2      \* entries in an archive
PaletteSize == 11  \* distinct colours of the largest stylesheet
MaxLen == 21       \* length of the array given to toTwoDimensional
MaxShift == 4      \* rotations of the array's contents

(***************************************************************************)
(* Program constants                                                       *)
(***************************************************************************)
RowSize == 10
TileSize == 64

Min(a, b) == IF a < b THEN a ELSE b

RECURSIVE Concat(_)
Concat(seqs) == IF seqs = <<>> THEN <<>> ELSE Head(seqs) \o Concat(Tail(seqs))

(***************************************************************************)
(* HEADERS (module constant)                                               *)
(***************************************************************************)
HEADERS ==
  [ AccessControlAllowHeaders |->
      "Origin, X-Requested-With, Content-Type, Accept, Access-Control-Allow-Origin",
    ContentType |-> "text/plain",
    AccessControlAllowMethods |-> "GET",
    AccessControlMaxAge |-> "8640",
    AccessControlAllowOrigin |-> "*",
    Vary |-> "Origin" ]

(***************************************************************************)
(* isCSSRequest: cssLangReg = /\.(css)($|\?)/ tested against the path      *)
(***************************************************************************)
isCSSRequest(request) ==
  \E i \in 1..Len(request) :
    /\ i + 3 <= Len(request)
    /\ SubSeq(request, i, i + 3) = <<".", "c", "s", "s">>
    /\ (i + 3 = Len(request) \/ request[i + 4] = "?")

(***************************************************************************)
(* getSearchParams: null unless repo, owner and branch are all present     *)
(***************************************************************************)
Null == [isNull |-> TRUE]

\* searchParams.get(name) || ''
GetOrEmpty(url, name) == IF name \in DOMAIN url THEN url[name] ELSE ""

\* the check of branch is forgotten
getSearchParamsNoBranch(url) ==
  IF \/ "repo" \notin DOMAIN url
     \/ "owner" \notin DOMAIN url
  THEN Null
  ELSE [isNull |-> FALSE, repo |-> GetOrEmpty(url, "repo"),
        owner |-> GetOrEmpty(url, "owner"),
        branch |-> GetOrEmpty(url, "branch")]

getSearchParams(url) ==
  IF \/ "repo" \notin DOMAIN url
     \/ "owner" \notin DOMAIN url
     \/ "branch" \notin DOMAIN url
  THEN Null
  ELSE [isNull |-> FALSE, repo |-> GetOrEmpty(url, "repo"),
        owner |-> GetOrEmpty(url, "owner"),
        branch |-> GetOrEmpty(url, "branch")]

(***************************************************************************)
(* toTwoDimensional: one row per index i with i % size = 0, holding        *)
(* a.slice(i, i + size)                                                    *)
(***************************************************************************)
\* a.slice(i, i + size - 1): each row loses its last cell
toTwoDimensionalShort(arr, size) ==
  LET starts == SelectSeq([k \in 1..Len(arr) |-> k - 1],
                          LAMBDA i : i % size = 0)
  IN  [r \in 1..Len(starts) |->
         SubSeq(arr, starts[r] + 1, Min(starts[r] + size - 1, Len(arr)))]

toTwoDimensional(arr, size) ==
  LET starts == SelectSeq([k \in 1..Len(arr) |-> k - 1],
                          LAMBDA i : i % size = 0)
  IN  [r \in 1..Len(starts) |->
         SubSeq(arr, starts[r] + 1, Min(starts[r] + size, Len(arr)))]

(***************************************************************************)
(* toSvgAsString: the svg element's attributes, then one rect per cell     *)
(***************************************************************************)
\* x and y exchanged
RowRectsSwapped(row, i) ==
  [j0 \in 1..Len(row) |->
     [x |-> i * TileSize, y |-> (j0 - 1) * TileSize,
      width |-> TileSize, height |-> TileSize, fill |-> row[j0]]]

RowRects(row, i) ==
  [j0 \in 1..Len(row) |->
     [x |-> (j0 - 1) * TileSize, y |-> i * TileSize,
      width |-> TileSize, height |-> TileSize, fill |-> row[j0]]]

toSvgAsString(twoDimensionalHexColors) ==
  [ width |-> TileSize * 10,
    height |-> TileSize * Len(twoDimensionalHexColors),
    viewBox |-> <<0, 0, TileSize * 10, TileSize * Len(twoDimensionalHexColors)>>,
    rects |-> Concat([i1 \in 1..Len(twoDimensionalHexColors) |->
                        RowRects(twoDimensionalHexColors[i1], i1 - 1)]) ]

(***************************************************************************)
(* Tokens of a declaration value.                                          *)
(*   hex:  "#" followed by the characters of text                          *)
(*   func: name "(" ch[1] "," ch[2] "," ch[3] [ "," alpha ] ")" with the   *)
(*         alpha written in hundredths; dec says that a channel is         *)
(*         written with a decimal fraction                                 *)
(*   text: anything else, the word held in name                            *)
(***************************************************************************)
Hex(text) ==
  [kind |-> "hex", text |-> text, name |-> "", ch |-> <<>>,
   hasAlpha |-> FALSE, alpha |-> 0, dec |-> FALSE]

Func(name, ch, hasAlpha, alpha, dec) ==
  [kind |-> "func", text |-> <<>>, name |-> name, ch |-> ch,
   hasAlpha |-> hasAlpha, alpha |-> alpha, dec |-> dec]

Rgb(r, g, b) == Func("rgb", <<r, g, b>>, FALSE, 0, FALSE)

Rgba(r, g, b, a) == Func("rgba", <<r, g, b>>, TRUE, a, FALSE)

Text(word) ==
  [kind |-> "text", text |-> <<>>, name |-> word, ch |-> <<>>,
   hasAlpha |-> FALSE, alpha |-> 0, dec |-> FALSE]

LowerDigits ==
  <<"0", "1", "2", "3", "4", "5", "6", "7", "8", "9", "a", "b", "c", "d", "e", "f">>

UpperDigits ==
  <<"0", "1", "2", "3", "4", "5", "6", "7", "8", "9", "A", "B", "C", "D", "E", "F">>

IsHexDigit(c) == \E v \in 1..16 : c = LowerDigits[v] \/ c = UpperDigits[v]

HexVal(c) == (CHOOSE v \in 1..16 : c = LowerDigits[v] \/ c = UpperDigits[v]) - 1

(***************************************************************************)
(* value.match(/(^#hex{3}(hex{3})?$)|(rgba?\(n,n,n(,n)?\)$)/gi): the hex   *)
(* alternative is anchored at both ends of the value, the functional one   *)
(* at its end; null (no token) when neither matches.                       *)
(***************************************************************************)
MatchesHex(tok) ==
  /\ tok.kind = "hex"
  /\ Len(tok.text) \in {3, 6}
  /\ \A k \in 1..Len(tok.text) : IsHexDigit(tok.text[k])

MatchesFunc(tok) ==
  /\ tok.kind = "func"
  /\ tok.name \in {"rgb", "rgba"}
  /\ Len(tok.ch) = 3

Match(value) ==
  IF Len(value) = 1 /\ MatchesHex(value[1]) THEN <<value[1]>>
  ELSE IF Len(value) >= 1 /\ MatchesFunc(value[Len(value)])
       THEN <<value[Len(value)]>>
       ELSE <<>>

(***************************************************************************)
(* color-string: cs.get parses a token to [r, g, b, alpha] with the        *)
(* channels clamped to 0..255 and alpha to 0..1 (null when a channel is    *)
(* not an integer); cs.to.hex writes "#RRGGBB" in upper case, followed by  *)
(* the alpha byte when alpha < 1.  Alpha is held in hundredths.            *)
(***************************************************************************)
Clamp(num, lo, hi) == IF num < lo THEN lo ELSE IF num > hi THEN hi ELSE num

csGet(tok) ==
  IF tok.kind = "hex" /\ Len(tok.text) = 3
  THEN [isNull |-> FALSE,
        value |-> <<17 * HexVal(tok.text[1]), 17 * HexVal(tok.text[2]),
                    17 * HexVal(tok.text[3]), 100>>]
  ELSE IF tok.kind = "hex" /\ Len(tok.text) = 6
  THEN [isNull |-> FALSE,
        value |-> <<16 * HexVal(tok.text[1]) + HexVal(tok.text[2]),
                    16 * HexVal(tok.text[3]) + HexVal(tok.text[4]),
                    16 * HexVal(tok.text[5]) + HexVal(tok.text[6]), 100>>]
  ELSE IF tok.kind = "func" /\ ~tok.dec
  THEN [isNull |-> FALSE,
        value |-> <<Clamp(tok.ch[1], 0, 255), Clamp(tok.ch[2], 0, 255),
                    Clamp(tok.ch[3], 0, 255),
                    IF tok.hasAlpha THEN Clamp(tok.alpha, 0, 100) ELSE 100>>]
  ELSE Null

hexDouble(num) == <<UpperDigits[(num \div 16) + 1], UpperDigits[(num % 16) + 1]>>

csToHex(rgba) ==
  <<"#">> \o hexDouble(rgba[1]) \o hexDouble(rgba[2]) \o hexDouble(rgba[3])
    \o (IF rgba[4] < 100
        THEN hexDouble((rgba[4] * 255 * 2 + 100) \div 200)
        ELSE <<>>)

(***************************************************************************)
(* Set<string>: a sequence without repetitions, in insertion order         *)
(***************************************************************************)
\* a value added again moves to the end (delete, then add)
SetAddMovesLast(set, x) == Append(SelectSeq(set, LAMBDA y : y # x), x)

SetAdd(set, x) ==
  IF \E k \in 1..Len(set) : set[k] = x THEN set ELSE Append(set, x)

RECURSIVE SetAddAll(_, _)
SetAddAll(set, xs) ==
  IF xs = <<>> THEN set ELSE SetAddAll(SetAdd(set, Head(xs)), Tail(xs))

(***************************************************************************)
(* recursion: the colours of a node list                                   *)
(***************************************************************************)
RECURSIVE DeclColors(_)
DeclColors(matchedArr) ==
  IF matchedArr = <<>> THEN <<>>
  ELSE LET color == csGet(Head(matchedArr))
       IN  (IF color.isNull THEN <<>> ELSE <<csToHex(color.value)>>)
             \o DeclColors(Tail(matchedArr))

\* every container is entered, at-rules too
DescendsIntoAtRules(node) == node.type \in {"rule", "atrule"}

Descends(node) == node.type = "rule"

RECURSIVE recursion(_)
RECURSIVE VisitNodes(_, _)
VisitNodes(nodes, acc) ==
  IF nodes = <<>> THEN acc
  ELSE LET node == Head(nodes)
           next == IF Descends(node)
                   THEN SetAddAll(acc, recursion(node.nodes))
                   ELSE IF node.type = "decl"
                        THEN SetAddAll(acc, DeclColors(Match(node.value)))
                        ELSE acc
       IN  VisitNodes(Tail(nodes), next)

recursion(nodes) == VisitNodes(nodes, <<>>)

(***************************************************************************)
(* Inputs: stylesheet trees as postcss parses them, archive entries,       *)
(* archives, fetch responses and request URLs                              *)
(***************************************************************************)
Decl(value) == [type |-> "decl", value |-> value, nodes |-> <<>>]

Rule(nodes) == [type |-> "rule", value |-> <<>>, nodes |-> nodes]

AtRule(nodes) == [type |-> "atrule", value |-> <<>>, nodes |-> nodes]

Comment == [type |-> "comment", value |-> <<>>, nodes |-> <<>>]

Parsed(nodes) == [ok |-> TRUE, nodes |-> nodes]

SyntaxError == [ok |-> FALSE, nodes |-> <<>>]

File(path, content) == [path |-> path, content |-> content]

White == Hex(<<"f", "f", "f">>)

Black == Hex(<<"0", "0", "0">>)

Red == Hex(<<"f", "0", "0">>)

Blue == Hex(<<"0", "0", "f">>)

Green == Hex(<<"0", "f", "0">>)

\* a.css   a { color: #fff; background: rgb(0,0,0); border-color: #FFF }
PlainCss ==
  File(<<"a", ".", "c", "s", "s">>,
       Parsed(<<Rule(<<Decl(<<White>>), Decl(<<Rgb(0, 0, 0)>>),
                       Decl(<<Hex(<<"F", "F", "F">>)>>)>>)>>))

\* d/b.css   a { color: #000; b { color: #f00; c { color: #00f } } color: #ff0000 }
\*           /* x */ e { color: #ffffff }
NestedCss ==
  File(<<"d", "/", "b", ".", "c", "s", "s">>,
       Parsed(<<Rule(<<Decl(<<Black>>),
                       Rule(<<Decl(<<Red>>), Rule(<<Decl(<<Blue>>)>>)>>),
                       Decl(<<Hex(<<"f", "f", "0", "0", "0", "0">>)>>)>>),
                Comment,
                Rule(<<Decl(<<Hex(<<"f", "f", "f", "f", "f", "f">>)>>)>>)>>))

\* m.css   @media x { a { color: #0f0 } @supports y { b { color: #00f } } }
\*         @font-face { color: #000 }  a { color: #f00 }
MediaCss ==
  File(<<"m", ".", "c", "s", "s">>,
       Parsed(<<AtRule(<<Rule(<<Decl(<<Green>>)>>),
                         AtRule(<<Rule(<<Decl(<<Blue>>)>>)>>)>>),
                AtRule(<<Decl(<<Black>>)>>),
                Rule(<<Decl(<<Red>>)>>)>>))

\* s.css   a { border: 1px solid #0f0; background: linear-gradient( #f00 , #00f );
\*             outline: #fff solid; box-shadow: rgb(0,0,0) rgb(255,0,0);
\*             color: #ffff; fill: rgb(1.5,0,0); stroke: 1px rgb(300,-5,0) }
ShorthandCss ==
  File(<<"s", ".", "c", "s", "s">>,
       Parsed(<<Rule(<<Decl(<<Text("1px"), Text("solid"), Green>>),
                       Decl(<<Text("linear-gradient("), Red, Text(","), Blue,
                              Text(")")>>),
                       Decl(<<White, Text("solid")>>),
                       Decl(<<Rgb(0, 0, 0), Rgb(255, 0, 0)>>),
                       Decl(<<Hex(<<"f", "f", "f", "f">>)>>),
                       Decl(<<Func("rgb", <<1, 0, 0>>, FALSE, 0, TRUE)>>),
                       Decl(<<Text("1px"), Rgb(300, -5, 0)>>)>>)>>))

\* t.css   a { color: rgb(255,0,0); background: rgba(255, 0, 0, 0.5);
\*             border-color: rgba(255,0,0,1) }
AlphaCss ==
  File(<<"t", ".", "c", "s", "s">>,
       Parsed(<<Rule(<<Decl(<<Rgb(255, 0, 0)>>), Decl(<<Rgba(255, 0, 0, 50)>>),
                       Decl(<<Rgba(255, 0, 0, 100)>>)>>)>>))

\* x.css   content that postcss rejects
BrokenCss == File(<<"x", ".", "c", "s", "s">>, SyntaxError)

\* c.js    not a stylesheet, and not valid CSS either
ScriptJs == File(<<"c", ".", "j", "s">>, SyntaxError)

\* e.scss  a { color: #00f }   (".scss" does not contain ".css")
SassFile ==
  File(<<"e", ".", "s", "c", "s", "s">>, Parsed(<<Rule(<<Decl(<<Blue>>)>>)>>))

\* p.css?v   a { c1: #010000; c2: #020000; ... }  PaletteSize distinct colours
PaletteColor(k) ==
  Hex(<<LowerDigits[((k \div 16) % 16) + 1], LowerDigits[(k % 16) + 1],
        "0", "0", "0", "0">>)

PaletteCss ==
  File(<<"p", ".", "c", "s", "s", "?", "v">>,
       Parsed(<<Rule([k \in 1..PaletteSize |-> Decl(<<PaletteColor(k)>>)])>>))

FileLib ==
  {PlainCss, NestedCss, MediaCss, ShorthandCss, AlphaCss, BrokenCss, ScriptJs,
   SassFile, PaletteCss}

SeqsUpTo(S, n) == UNION {[1..m -> S] : m \in 0..n}

NotAZip == [zip |-> FALSE, files |-> <<>>]

Bodies ==
  {NotAZip} \cup {[zip |-> TRUE, files |-> fs] : fs \in SeqsUpTo(FileLib, MaxFiles)}

Statuses == {200, 404}

Ok(status) == status >= 200 /\ status < 300

ParamNames == {"repo", "owner", "branch"}

ParamValues == {"", "x"}

Urls == UNION {[S -> ParamValues] : S \in SUBSET ParamNames}

(***************************************************************************)
(* The handler, one action per resumption                                  *)
(***************************************************************************)
NoResponse == [statusCode |-> 0]

NoResp == [status |-> 0, body |-> NotAZip]

BadRequest == [statusCode |-> 400]

\* the catch block of handler
Catch == [statusCode |-> 500]

\* the return of the try block of handler
Success(svgAsString) ==
  [statusCode |-> 200, body |-> svgAsString, HEADERS |-> HEADERS]

ZipballUrl(options) ==
  <<"https://api.github.com/repos/", options.owner, "/", options.repo,
    "/zipball/", options.branch>>

HandlerInit ==
  /\ rawUrl \in Urls
  /\ pc = "handler"
  /\ net = <<>>
  /\ resp = NoResp
  /\ opened = <<>>
  /\ files = <<>>
  /\ idx = 0
  /\ readLog = <<>>
  /\ hexColors = <<>>
  /\ response = NoResponse
  /\ fault = "none"

PureIdle == arg = <<>> /\ result = <<>> /\ called = FALSE

Init == HandlerInit /\ PureIdle

\* handler up to its first await: getSearchParams, then main's call of fetch
Handler ==
  /\ pc = "handler"
  /\ LET options == getSearchParams(rawUrl)
     IN  IF options.isNull
         THEN /\ response' = BadRequest
              /\ pc' = "done"
              /\ UNCHANGED net
         ELSE /\ net' = Append(net, ZipballUrl(options))
              /\ pc' = "fetch"
              /\ UNCHANGED response
  /\ UNCHANGED <<rawUrl, resp, opened, files, idx, readLog, hexColors, fault>>
  /\ UNCHANGED pureVars

\* an awaited promise rejected: the exception reaches handler's catch
Throw(what) ==
  /\ fault' = what
  /\ response' = Catch
  /\ pc' = "done"
  /\ UNCHANGED <<rawUrl, net, resp, opened, files, idx, readLog, hexColors>>
  /\ UNCHANGED pureVars

\* fetch resolved, whatever the status: response.arrayBuffer() is called
FetchResolves ==
  /\ pc = "fetch"
  /\ \E status \in Statuses, body \in Bodies :
       resp' = [status |-> status, body |-> body]
  /\ pc' = "arrayBuffer"
  /\ UNCHANGED <<rawUrl, net, opened, files, idx, readLog, hexColors,
                 response, fault>>
  /\ UNCHANGED pureVars

FetchRejects == pc = "fetch" /\ Throw("fetch")

\* the body was read: unzipper.Open.buffer is called with it
ArrayBufferResolves ==
  /\ pc = "arrayBuffer"
  /\ opened' = Append(opened, resp.body)
  /\ pc' = "open"
  /\ UNCHANGED <<rawUrl, net, resp, files, idx, readLog, hexColors,
                 response, fault>>
  /\ UNCHANGED pureVars

ArrayBufferRejects == pc = "arrayBuffer" /\ Throw("arrayBuffer")

NextCss(fs, i) ==
  IF \E k \in i..Len(fs) : isCSSRequest(fs[k].path)
  THEN CHOOSE k \in i..Len(fs) :
         /\ isCSSRequest(fs[k].path)
         /\ \A j \in i..(k - 1) : ~isCSSRequest(fs[j].path)
  ELSE Len(fs) + 1

\* main's for loop from entry i to its next await (file.buffer() of the next
\* stylesheet entry), or past the last entry to the rendering and handler's return
Resume(fs, i, colors) ==
  LET k == NextCss(fs, i)
  IN  /\ idx' = k
      /\ hexColors' = colors
      /\ IF k <= Len(fs)
         THEN /\ readLog' = Append(readLog, fs[k].path)
              /\ pc' = "buffer"
              /\ UNCHANGED response
         ELSE /\ response' = Success(toSvgAsString(toTwoDimensional(colors, RowSize)))
              /\ pc' = "done"
              /\ UNCHANGED readLog

OpenResolves ==
  /\ pc = "open"
  /\ resp.body.zip
  /\ files' = resp.body.files
  /\ Resume(resp.body.files, 1, <<>>)
  /\ UNCHANGED <<rawUrl, net, resp, opened, fault>>
  /\ UNCHANGED pureVars

OpenRejects == pc = "open" /\ ~resp.body.zip /\ Throw("open")

\* the stylesheet that does not parse is skipped and the loop goes on
ParseSkips ==
  /\ Resume(files, idx + 1, hexColors)
  /\ UNCHANGED <<rawUrl, net, resp, opened, files, fault>>

\* parse throws: the exception leaves main and reaches handler's catch
ParseThrows ==
  /\ response' = Catch
  /\ pc' = "done"
  /\ UNCHANGED <<rawUrl, net, resp, opened, files, idx, readLog, hexColors,
                 fault>>

\* the entry's content arrived: parse it (postcss throws on a syntax error),
\* walk it, add its colours and go on with the loop
BufferResolves ==
  /\ pc = "buffer"
  /\ LET content == files[idx].content
     IN  IF content.ok
         THEN /\ Resume(files, idx + 1,
                        SetAddAll(hexColors, recursion(content.nodes)))
              /\ UNCHANGED <<rawUrl, net, resp, opened, files, fault>>
         ELSE ParseThrows
  /\ UNCHANGED pureVars

BufferRejects == pc = "buffer" /\ Throw("buffer")

Next ==
  \/ Handler
  \/ FetchResolves
  \/ FetchRejects
  \/ ArrayBufferResolves
  \/ ArrayBufferRejects
  \/ OpenResolves
  \/ OpenRejects
  \/ BufferResolves
  \/ BufferRejects

Spec == Init /\ [][Next]_vars

(***************************************************************************)
(* The pure functions on their own: the input is drawn by the initial      *)
(* state and one action applies the function.  No request is in progress.  *)
(***************************************************************************)
HandlerIdle ==
  /\ rawUrl = <<>>
  /\ pc = "idle"
  /\ net = <<>>
  /\ resp = NoResp
  /\ opened = <<>>
  /\ files = <<>>
  /\ idx = 0
  /\ readLog = <<>>
  /\ hexColors = <<>>
  /\ response = NoResponse
  /\ fault = "none"

\* toTwoDimensional(arr, 10) on arrays of canonical colours, some repeated
Tile(k) == csToHex(<<(k * 17) % 256, 0, 0, 100>>)

Arrays ==
  {[k \in 1..n |-> Tile((k + s) % 16)] : n \in 0..MaxLen, s \in 0..MaxShift}

GridInit == HandlerIdle /\ arg \in Arrays /\ result = <<>> /\ called = FALSE

Partition ==
  /\ ~called
  /\ result' = toTwoDimensional(arg, RowSize)
  /\ called' = TRUE
  /\ UNCHANGED arg
  /\ UNCHANGED handlerVars

GridNext == Partition

SpecGrid == GridInit /\ [][GridNext]_vars

\* the walker on  a { color: rgb(r,g,b); background: rgba(r,g,b,a) }
Channels == {0, 128, 255}

Alphas == {0, 50, 99, 100}

ColorInit ==
  /\ HandlerIdle
  /\ arg \in {<<r, g, b, a>> : r \in Channels, g \in Channels, b \in Channels,
                               a \in Alphas}
  /\ result = <<>>
  /\ called = FALSE

Normalize ==
  /\ ~called
  /\ result' =
       [rgb |-> DeclColors(Match(<<Rgb(arg[1], arg[2], arg[3])>>)),
        rgba |-> DeclColors(Match(<<Rgba(arg[1], arg[2], arg[3], arg[4])>>)),
        set |-> recursion(<<Rule(<<Decl(<<Rgb(arg[1], arg[2], arg[3])>>),
                                   Decl(<<Rgba(arg[1], arg[2], arg[3], arg[4])>>)>>)>>)]
  /\ called' = TRUE
  /\ UNCHANGED arg
  /\ UNCHANGED handlerVars

ColorNext == Normalize

SpecColor == ColorInit /\ [][ColorNext]_vars

(***************************************************************************)
(* What the claims speak of                                                *)
(***************************************************************************)
Range(seq) == {seq[k] : k \in 1..Len(seq)}

Returned(status) == pc = "done" /\ response.statusCode = status

Fills == [k \in 1..Len(response.body.rects) |-> response.body.rects[k].fill]

MissingParam == \E name \in {"repo", "owner", "branch"} : name \notin DOMAIN rawUrl

IsStylesheet(file) == isCSSRequest(file.path)

Stylesheets(fs) == SelectSeq(fs, IsStylesheet)

\* every declaration of a tree in document order, with whether one of its
\* ancestors is no rule
RECURSIVE AllDecls(_, _)
AllDecls(nodes, inAt) ==
  IF nodes = <<>> THEN <<>>
  ELSE LET n == Head(nodes)
       IN  (IF n.type = "decl" THEN <<[value |-> n.value, inAt |-> inAt]>>
            ELSE AllDecls(n.nodes, inAt \/ n.type # "rule"))
             \o AllDecls(Tail(nodes), inAt)

UnderRules(d) == ~d.inAt

\* the declarations of the stylesheets of an archive that lie under rules only
RuleDecls(fs) ==
  LET sheets == Stylesheets(fs)
  IN  Concat([k \in 1..Len(sheets) |->
                SelectSeq(AllDecls(sheets[k].content.nodes, FALSE), UnderRules)])

\* the colours the walker takes from them, in archive and document order
DocOrder(fs) ==
  LET decls == RuleDecls(fs)
  IN  Concat([k \in 1..Len(decls) |-> DeclColors(Match(decls[k].value))])

FirstOccurrences(seq) ==
  LET keep == {k \in 1..Len(seq) : \A j \in 1..(k - 1) : seq[j] # seq[k]}
  IN  [n \in 1..Cardinality(keep) |->
         seq[CHOOSE k \in keep : Cardinality({j \in keep : j <= k}) = n]]

IsColourToken(tok) ==
  \/ MatchesHex(tok)
  \/ (MatchesFunc(tok) /\ ~csGet(tok).isNull)

BadSheet ==
  \E k \in 1..Len(files) :
    IsStylesheet(files[k]) /\ ~files[k].content.ok

(***************************************************************************)
(* Claims                                                                  *)
(***************************************************************************)

\* C1: a request in which repo, owner or branch is absent is answered with
\* status 400 and no body, and no fetch, no archive open and no entry read
\* is ever started for it.
C1_MissingParamIs400 ==
  MissingParam =>
    /\ net = <<>>
    /\ opened = <<>>
    /\ readLog = <<>>
    /\ pc \in {"handler", "done"}
    /\ (pc = "done" => response = [statusCode |-> 400])

C1_Witness ==
  /\ pc = "done"
  /\ DOMAIN rawUrl = {"repo", "owner"}
  /\ response.statusCode = 400

\* C2: whenever the pipeline completes without failure the response has
\* status 200, the rendered document as body, and headers that include
\* Content-Type: text/plain and the CORS headers.
C2_SuccessCarriesHeaders ==
  Returned(200) =>
    /\ "body" \in DOMAIN response
    /\ "headers" \in DOMAIN response
    /\ response.headers.ContentType = "text/plain"
    /\ response.headers.AccessControlAllowOrigin = "*"
    /\ response.headers.AccessControlAllowMethods = "GET"
    /\ response.headers.AccessControlMaxAge = "8640"
    /\ response.headers.Vary = "Origin"

\* C3: if the fetch, the archive open, an entry read or the parse of any
\* stylesheet entry fails, the handler returns status 500 with no body; a
\* response with status 200 is built from every stylesheet of the archive.
C3_FailureIs500 ==
  pc = "done" =>
    /\ (fault # "none" \/ BadSheet) => response = [statusCode |-> 500]
    /\ response.statusCode = 200 =>
         /\ fault = "none"
         /\ ~BadSheet
         /\ readLog = [k \in 1..Len(Stylesheets(files)) |->
                         Stylesheets(files)[k].path]
         /\ Range(Fills) =
              UNION {Range(recursion(f.content.nodes)) :
                       f \in Range(Stylesheets(files))}

C3_Witness ==
  /\ Returned(500)
  /\ fault = "none"
  /\ Len(files) = 2
  /\ idx = 2
  /\ ~files[2].content.ok
  /\ hexColors # <<>>

\* C4: a non-success status from the hosting service makes the request end
\* in status 500, and the response body is never passed on to the archive
\* reader.
C4_NonSuccessStatusFails ==
  (resp # NoResp /\ ~Ok(resp.status)) =>
    /\ opened = <<>>
    /\ (pc = "done" => response = [statusCode |-> 500])

\* C5: rgb(r,g,b) and rgba(r,g,b,a) normalize to the identical canonical
\* 6-digit hex string for every alpha, so they are one entry of the colour
\* set.
C5_AlphaIgnored ==
  called =>
    /\ Len(result.rgb) = 1
    /\ result.rgba = result.rgb
    /\ Len(result.rgb[1]) = 7
    /\ Len(result.set) = 1

\* C6: every colour token (hex or rgb/rgba) occurring anywhere in a
\* declaration value is in the result, also when the value holds several
\* colours or the token is preceded or followed by other text.
C6_EveryTokenFound ==
  Returned(200) =>
    \A d \in Range(RuleDecls(files)) :
      \A tok \in Range(d.value) :
        IsColourToken(tok) => csToHex(csGet(tok).value) \in Range(Fills)

\* C7: the colours handed to the renderer are the distinct normalized
\* colours, each once, in the order of their first occurrence: stylesheets
\* in archive order, each depth-first in document order.
C7_FirstOccurrenceOrder ==
  Returned(200) =>
    /\ hexColors = FirstOccurrences(DocOrder(files))
    /\ Fills = hexColors

C7_Witness ==
  /\ Returned(200)
  /\ Len(Stylesheets(files)) = 2
  /\ \E j, k \in 1..Len(DocOrder(files)) :
       /\ j < k
       /\ k <= Len(DocOrder(<<Stylesheets(files)[1]>>))
       /\ DocOrder(files)[j] = DocOrder(files)[k]
  /\ \E j, k \in 1..Len(DocOrder(files)) :
       /\ j <= Len(DocOrder(<<Stylesheets(files)[1]>>))
       /\ k > Len(DocOrder(<<Stylesheets(files)[1]>>))
       /\ DocOrder(files)[j] = DocOrder(files)[k]
       /\ hexColors[Len(hexColors)] # DocOrder(files)[k]

\* C8: toTwoDimensional(seq, 10) of a sequence of length N has ceil(N/10)
\* rows whose concatenation is the sequence; every row but the last has 10
\* cells, the last has N mod 10 cells (10 when N is a positive multiple of
\* 10), and there are no rows for N = 0.
C8_GridPartition ==
  called =>
    LET N == Len(arg)
    IN  /\ Len(result) = (N + 9) \div 10
        /\ Concat(result) = arg
        /\ \A r \in 1..(Len(result) - 1) : Len(result[r]) = 10
        /\ N > 0 =>
             Len(result[Len(result)]) = (IF N % 10 = 0 THEN 10 ELSE N % 10)
        /\ N = 0 => result = <<>>

C8_Witness ==
  /\ called
  /\ Len(arg) > 10
  /\ Len(arg) % 10 # 0
  /\ Len(result) = 2

\* C9: the document of N colours has width 640, height 64 * ceil(N/10) and
\* N rectangles, the k-th (from 0) of size 64x64 at x = 64 * (k mod 10),
\* y = 64 * floor(k/10) filled with the k-th colour; an archive without
\* stylesheet entries gives status 200 and a document of width 640, height 0
\* and no rectangle.
C9_Document ==
  /\ Returned(200) =>
       LET N == Len(hexColors)
           doc == response.body
       IN  /\ doc.width = 640
           /\ doc.height = 64 * ((N + 9) \div 10)
           /\ Len(doc.rects) = N
           /\ \A k \in 0..(N - 1) :
                doc.rects[k + 1] =
                  [x |-> 64 * (k % 10), y |-> 64 * (k \div 10),
                   width |-> 64, height |-> 64, fill |-> hexColors[k + 1]]
  /\ (pc = "done" /\ fault = "none" /\ ~MissingParam /\ resp.body.zip
        /\ Stylesheets(resp.body.files) = <<>>) =>
       /\ response.statusCode = 200
       /\ response.body.width = 640
       /\ response.body.height = 0
       /\ response.body.rects = <<>>

C9_Witness ==
  /\ Returned(200)
  /\ Len(response.body.rects) > 10
  /\ response.body.height = 128

\* C10: the walker descends into rule nodes only: every colour of the
\* result is declared by a declaration all of whose ancestors are rules, so
\* a colour declared only inside an at-rule block is not in the grid.
C10_OnlyRulesEntered ==
  Returned(200) =>
    \A c \in Range(Fills) :
      \E d \in Range(RuleDecls(files)) : c \in Range(DeclColors(Match(d.value)))

C10_Witness ==
  /\ Returned(200)
  /\ \E f \in Range(Stylesheets(files)) :
       \E d \in Range(AllDecls(f.content.nodes, FALSE)) :
         /\ d.inAt
         /\ DeclColors(Match(d.value)) # <<>>
         /\ DeclColors(Match(d.value))[1] \notin Range(Fills)

====
